---- MODULE Spec2Model ----
(***************************************************************************)
(* GPTBatchSequentialDetector (alignment/batch_sequential_detector.py).    *)
(*                                                                         *)
(* A document is a sequence of stripped lines, a line a sequence of words. *)
(* A text (a Python str) is a sequence of symbols: words, separated by a   *)
(* blank inside a line, and the newline NL between lines.  Line ids,       *)
(* token indexes and batch ids are zero-based as in the source, so the     *)
(* line with id k is lines[k + 1].                                         *)
(***************************************************************************)
EXTENDS Integers, Sequences, FiniteSets, TLC

\* ------------------------------------------------------------------ bounds
MaxLines == 3       \* lines of a document
MaxOutLen == 3      \* symbols of an oracle response
MaxRuns == 2        \* detect runs on the same document and record id
NumProcs == 2       \* concurrent callers of the cached request

\* ------------------------------------------------------- program constants
token_limit == 1400     \* __init__(..., token_limit=1400, ...)
NoiseFloor == 20        \* detect: len(encode(batch)) < 20
RateNum == 3            \* the threshold 0.6 of lcs_sequence_alignment,
RateDen == 5            \*   as the fraction 3/5

\* ------------------------------------------------------------- vocabulary
NL == "NL"
InWords == {"a", "b"}           \* words of the documents
OutWords == InWords \cup {"z"}  \* the oracle may add a word of its own
\* len(word)
WordLen == [w \in OutWords |-> CASE w = "a" -> 1 [] w = "b" -> 3 [] OTHER -> 2]
\* the encoder's token count of a symbol: the line "a" is below the noise
\* floor, "a b" fits the budget once but not twice, "b b" is the budget
SymTokens == [s \in OutWords \cup {NL} |->
                CASE s = "a" -> 10 [] s = "b" -> 700 [] s = "z" -> 2 [] OTHER -> 1]

LineTexts == {<< >>, <<"a">>, <<"a", "b">>, <<"b", "b">>}
SeqsUpTo(S, n) == UNION {[1..k -> S] : k \in 0..n}
Documents == SeqsUpTo(LineTexts, MaxLines)
OracleTexts == SeqsUpTo(OutWords \cup {NL}, MaxOutLen)
RecordId == "r"

\* ---------------------------------------------------------- pure helpers
RECURSIVE SumSeq(_)
SumSeq(s) == IF s = << >> THEN 0 ELSE Head(s) + SumSeq(Tail(s))

\* len(self.encoder.encode(text))
EncodeLen(text) == SumSeq([k \in 1..Len(text) |-> SymTokens[text[k]]])

\* str.splitlines(): a trailing newline opens no further line
RECURSIVE splitlines(_)
splitlines(text) ==
    IF text = << >> THEN << >>
    ELSE IF \E k \in 1..Len(text) : text[k] = NL
         THEN LET k == CHOOSE i \in 1..Len(text) :
                          text[i] = NL /\ \A j \in 1..(i - 1) : text[j] # NL
              IN  <<SubSeq(text, 1, k - 1)>> \o splitlines(SubSeq(text, k + 1, Len(text)))
         ELSE <<text>>

\* sum(map(len, line.split()))
WordChars(line) == SumSeq([k \in 1..Len(line) |-> WordLen[line[k]]])

\* <<word, line id>> of every word of the lines with id >= p, in order
RECURSIVE WordsOf(_, _)
WordsOf(ls, p) ==
    IF p >= Len(ls) THEN << >>
    ELSE [k \in 1..Len(ls[p + 1]) |-> <<ls[p + 1][k], p>>] \o WordsOf(ls, p + 1)

\* word_dict.setdefault(word, len(word_dict)) over the input words: the
\* distinct words in first-seen order; the id of d[i] is i - 1
RECURSIVE BuildDict(_, _)
BuildDict(ws, d) ==
    IF ws = << >> THEN d
    ELSE BuildDict(Tail(ws),
                   IF \E i \in 1..Len(d) : d[i] = Head(ws)[1]
                   THEN d ELSE Append(d, Head(ws)[1]))

InDict(d, w) == \E i \in 1..Len(d) : d[i] = w
DictId(d, w) == (CHOOSE i \in 1..Len(d) : d[i] = w) - 1

\* LCSTokenInfo(token, length, source_line_id) of both sides; the token
\* chr(offset + id) is modelled by the id, which it is in bijection with
tokenize_by_space_splited_word(input_lines, output_lines) ==
    LET iw == WordsOf(input_lines, 0)
        word_dict == BuildDict(iw, << >>)
        Known(x) == InDict(word_dict, x[1])
        ow == SelectSeq(WordsOf(output_lines, 0), Known)
        Info(x) == <<DictId(word_dict, x[1]), WordLen[x[1]], x[2]>>
    IN  << [k \in 1..Len(iw) |-> Info(iw[k])], [k \in 1..Len(ow) |-> Info(ow[k])] >>

\* GPTBatchSequentialDetector.tokenize_for_lcs, the name line 81 calls
tokenize_for_lcs(input_lines, output_lines) ==
    tokenize_by_space_splited_word(input_lines, output_lines)

\* pylcs.lcs_sequence_idx(s, t): for every index of s the index of t it is
\* matched with on one longest common subsequence, or -1
\* (first: every element of s matched with the first equal element of t,
\* whatever the order of the matches)
lcs_sequence_idx_FirstEqual(s, t) ==
    [i \in 1..Len(s) |->
        IF \E j \in 1..Len(t) : t[j] = s[i]
        THEN (CHOOSE j \in 1..Len(t) :
                 t[j] = s[i] /\ \A x \in 1..(j - 1) : t[x] # s[i]) - 1
        ELSE -1]
lcs_sequence_idx(s, t) ==
    LET m == Len(s)
        n == Len(t)
        dp[i \in 0..m, j \in 0..n] ==
            IF i = 0 \/ j = 0 THEN 0
            ELSE IF s[i] = t[j] THEN dp[i - 1, j - 1] + 1
            ELSE IF dp[i - 1, j] >= dp[i, j - 1] THEN dp[i - 1, j] ELSE dp[i, j - 1]
        RECURSIVE back(_, _, _)
        back(i, j, mp) ==
            IF i = 0 \/ j = 0 THEN mp
            ELSE IF s[i] = t[j] THEN back(i - 1, j - 1, [mp EXCEPT ![i] = j - 1])
            ELSE IF dp[i - 1, j] >= dp[i, j - 1] THEN back(i - 1, j, mp)
            ELSE back(i, j - 1, mp)
    IN  back(m, n, [i \in 1..m |-> -1])

\* ------------------------------------------------- lcs_sequence_alignment
\* a hit rate is kept as <<matched length, total length>>, the operands of
\* the division of lines 101 and 103
\* the threshold applied to the matched length before it is divided
LowRate_Unnormalised(rate) == RateDen * rate[1] < RateNum
\* i < 0.6
LowRate(rate) == RateDen * rate[1] < RateNum * rate[2]

\* lines 105-109: mapping.pop(p) for every output line p with a low rate
confidence_filter(mapping, output_hit_rate) ==
    LET keep == {p \in DOMAIN mapping : ~LowRate(output_hit_rate[p + 1])}
    IN  [p \in keep |-> mapping[p]]

\* [err |-> TRUE] is the ZeroDivisionError of line 101 or 103; otherwise ret
\* is the tuple (mapping, input_hit_rate, output_hit_rate) of line 111
lcs_sequence_alignment(input_text, output_text) ==
    LET input_lines == splitlines(input_text)
        output_lines == splitlines(output_text)
        toks == tokenize_for_lcs(input_lines, output_lines)
        input_tokens_info == toks[1]
        output_tokens_info == toks[2]
        input_tokens == [k \in 1..Len(input_tokens_info) |-> input_tokens_info[k][1]]
        output_tokens == [k \in 1..Len(output_tokens_info) |-> output_tokens_info[k][1]]
        aligned_indexes == lcs_sequence_idx(input_tokens, output_tokens)
        matched == {k \in 1..Len(aligned_indexes) : aligned_indexes[k] # -1}
        OutTok(k) == output_tokens_info[aligned_indexes[k] + 1]
        mapping == [o \in {OutTok(k)[3] : k \in matched} |->
                      {input_tokens_info[k][3] : k \in {x \in matched : OutTok(x)[3] = o}}]
        InHit(p) == SumSeq([k \in 1..Len(aligned_indexes) |->
                      IF k \in matched /\ input_tokens_info[k][3] = p
                      THEN input_tokens_info[k][2] ELSE 0])
        OutHit(p) == SumSeq([k \in 1..Len(aligned_indexes) |->
                      IF k \in matched /\ OutTok(k)[3] = p THEN OutTok(k)[2] ELSE 0])
        input_hit_rate == [p \in 1..Len(input_lines) |->
                              <<InHit(p - 1), WordChars(input_lines[p])>>]
        output_hit_rate == [p \in 1..Len(output_lines) |->
                              <<OutHit(p - 1), WordChars(output_lines[p])>>]
        zero == \/ \E p \in 1..Len(input_lines) : WordChars(input_lines[p]) = 0
                \/ \E p \in 1..Len(output_lines) : WordChars(output_lines[p]) = 0
    IN  IF zero THEN [err |-> TRUE, ret |-> << >>]
        ELSE [err |-> FALSE,
              ret |-> <<confidence_filter(mapping, output_hit_rate),
                        input_hit_rate, output_hit_rate>>]

\* ---------------------------------------------------------------- gen_batch
\* the for loop of lines 167-173 from lineid on, and lines 174-175 after it;
\* << >> is the None the function returns when it falls off its end
RECURSIVE gen_batch_loop(_, _, _)
gen_batch_loop(ls, lineid, buf) ==
    IF lineid >= Len(ls)
    THEN IF buf # << >> THEN <<buf, lineid>> ELSE << >>
    ELSE LET line == ls[lineid + 1]
             tmp == (IF Len(buf) > 0 THEN buf \o <<NL>> ELSE << >>) \o line
         IN  IF EncodeLen(tmp) >= token_limit
             THEN <<buf, lineid>>
             ELSE gen_batch_loop(ls, lineid + 1, tmp)

gen_batch(ls, begin_lineid) == gen_batch_loop(ls, begin_lineid, << >>)

\* ------------------------------------------------------------------- state
VARIABLES
    cache,              \* cache_dir: file name |-> file content
    lines, record_id,   \* the arguments of detect
    detections, todo_lineid, batch_id,
    batch, next_line_id, output_text, align_map, input_line_offset,
    pc,                 \* where the run is: a loop position, "done", or the
                        \*   name of the exception that ended it
    returned,           \* << >>, or <<the list detect returned>>
    run,                \* number of the current detect run
    calls,              \* oracle calls of the current run
    first,              \* the first run: what it returned, the files it left
    oracle_failed,      \* the oracle raised in the current run
    ppc, pkey, pout,    \* concurrent callers of the cached request
    computed            \* oracle computations per file name

detectVars == <<lines, record_id, detections, todo_lineid, batch_id, batch,
                next_line_id, output_text, align_map, input_line_offset, pc,
                returned, run, calls, first, oracle_failed>>
procVars == <<ppc, pkey, pout, computed>>
vars == <<cache, detectVars, procVars>>

Ended == {"done", "OracleError", "TypeError", "ZeroDivisionError",
          "AssertionError", "AttributeError"}

\* cache_dir / f'record_{record_id}_processed_batch_{batch_index}.json'
Filename(rid, batch_index) == <<rid, batch_index>>
\* json.dump(output_text, f) and json.load(f): a file is << >> while it is
\* open for writing and nothing is dumped yet
JsonDump(text) == <<text>>
JsonLoad(file) == file[1]
WriteFile(dir, name, content) ==
    [f \in DOMAIN dir \cup {name} |-> IF f = name THEN content ELSE dir[f]]
NoFiles == [f \in {} |-> << >>]

\* [False] * (len(lines) - 1)
NewDetections(ls) == [k \in 1..(Len(ls) - 1) |-> FALSE]

Locals(ls) ==
    /\ lines' = ls
    /\ record_id' = RecordId
    /\ detections' = NewDetections(ls)
    /\ todo_lineid' = 0
    /\ batch_id' = 0
    /\ batch' = << >>
    /\ next_line_id' = 0
    /\ output_text' = << >>
    /\ align_map' = << >>
    /\ input_line_offset' = 0
    /\ returned' = << >>
    /\ calls' = 0
    /\ oracle_failed' = FALSE
    /\ pc' = "loop"

Init ==
    /\ cache = NoFiles
    /\ lines = << >> /\ record_id = RecordId
    /\ detections = << >> /\ todo_lineid = 0 /\ batch_id = 0
    /\ batch = << >> /\ next_line_id = 0 /\ output_text = << >>
    /\ align_map = << >> /\ input_line_offset = 0
    /\ pc = "idle" /\ returned = << >> /\ run = 0 /\ calls = 0
    /\ first = [ret |-> << >>, files |-> {}] /\ oracle_failed = FALSE
    /\ ppc = [p \in 1..NumProcs |-> "idle"]
    /\ pkey = [p \in 1..NumProcs |-> Filename(RecordId, 0)]
    /\ pout = [p \in 1..NumProcs |-> << >>]
    /\ computed = [f \in {} |-> 0]

\* detect is called: lines 190-193
Detect ==
    /\ pc = "idle"
    /\ \E ls \in Documents : Locals(ls)
    /\ run' = 1
    /\ UNCHANGED <<cache, first, procVars>>

\* detect is called again with the same lines and record id
Rerun ==
    /\ pc \in Ended
    /\ run < MaxRuns
    /\ Locals(lines)
    /\ run' = run + 1
    /\ first' = IF run = 1 THEN [ret |-> returned, files |-> DOMAIN cache] ELSE first
    /\ UNCHANGED <<cache, procVars>>

\* line 195 is false: line 219
LoopExit ==
    /\ pc = "loop"
    /\ ~(todo_lineid < Len(lines))
    /\ pc' = "done"
    /\ returned' = <<detections>>
    /\ UNCHANGED <<cache, lines, record_id, detections, todo_lineid, batch_id,
                   batch, next_line_id, output_text, align_map,
                   input_line_offset, run, calls, first, oracle_failed, procVars>>

\* lines 195-196; unpacking None raises TypeError
GenBatch ==
    /\ pc = "loop"
    /\ todo_lineid < Len(lines)
    /\ LET r == gen_batch(lines, todo_lineid)
       IN  IF r = << >>
           THEN /\ pc' = "TypeError"
                /\ UNCHANGED <<batch, next_line_id>>
           ELSE /\ batch' = r[1]
                /\ next_line_id' = r[2]
                /\ pc' = "batched"
    /\ UNCHANGED <<cache, lines, record_id, detections, todo_lineid, batch_id,
                   output_text, align_map, input_line_offset, returned, run,
                   calls, first, oracle_failed, procVars>>

\* a short batch that is not empty is sent to the oracle like any other
NoiseBreak_CallsOracle ==
    /\ pc = "batched"
    /\ EncodeLen(batch) < NoiseFloor
    /\ batch # << >>
    /\ \E resp \in OracleTexts :
          /\ cache' = WriteFile(cache, Filename(record_id, batch_id), JsonDump(resp))
          /\ output_text' = <<resp>>
    /\ calls' = calls + 1
    /\ pc' = "requested"
    /\ UNCHANGED <<lines, record_id, detections, todo_lineid, batch_id, batch,
                   next_line_id, align_map, input_line_offset, returned, run,
                   first, oracle_failed, procVars>>
\* lines 197-198, then line 219
NoiseBreak ==
    /\ pc = "batched"
    /\ EncodeLen(batch) < NoiseFloor
    /\ pc' = "done"
    /\ returned' = <<detections>>
    /\ UNCHANGED <<cache, lines, record_id, detections, todo_lineid, batch_id,
                   batch, next_line_id, output_text, align_map,
                   input_line_offset, run, calls, first, oracle_failed, procVars>>

\* line 200, the file exists: lines 131-134
RequestHit ==
    /\ pc = "batched"
    /\ ~(EncodeLen(batch) < NoiseFloor)
    /\ Filename(record_id, batch_id) \in DOMAIN cache
    /\ output_text' = <<JsonLoad(cache[Filename(record_id, batch_id)])>>
    /\ pc' = "requested"
    /\ UNCHANGED <<cache, lines, record_id, detections, todo_lineid, batch_id,
                   batch, next_line_id, align_map, input_line_offset, returned,
                   run, calls, first, oracle_failed, procVars>>

\* line 200, no such file and the oracle answers: lines 127-130, 134.
\* The oracle answers any text of the bound, or the batch itself unchanged
RequestMiss ==
    /\ pc = "batched"
    /\ ~(EncodeLen(batch) < NoiseFloor)
    /\ Filename(record_id, batch_id) \notin DOMAIN cache
    /\ \E resp \in OracleTexts \cup {batch} :
          /\ cache' = WriteFile(cache, Filename(record_id, batch_id), JsonDump(resp))
          /\ output_text' = <<resp>>
    /\ calls' = calls + 1
    /\ pc' = "requested"
    /\ UNCHANGED <<lines, record_id, detections, todo_lineid, batch_id, batch,
                   next_line_id, align_map, input_line_offset, returned, run,
                   first, oracle_failed, procVars>>

\* the oracle raises and an empty text is stored and aligned in its place
RequestFail_SubstitutesEmpty ==
    /\ pc = "batched"
    /\ ~(EncodeLen(batch) < NoiseFloor)
    /\ Filename(record_id, batch_id) \notin DOMAIN cache
    /\ calls' = calls + 1
    /\ oracle_failed' = TRUE
    /\ cache' = WriteFile(cache, Filename(record_id, batch_id), JsonDump(<< >>))
    /\ output_text' = << << >> >>
    /\ pc' = "requested"
    /\ UNCHANGED <<lines, record_id, detections, todo_lineid, batch_id, batch,
                   next_line_id, align_map, input_line_offset, returned, run,
                   first, procVars>>

\* line 200, no such file and the oracle raises at line 128
RequestFail ==
    /\ pc = "batched"
    /\ ~(EncodeLen(batch) < NoiseFloor)
    /\ Filename(record_id, batch_id) \notin DOMAIN cache
    /\ calls' = calls + 1
    /\ oracle_failed' = TRUE
    /\ pc' = "OracleError"
    /\ UNCHANGED <<cache, lines, record_id, detections, todo_lineid, batch_id,
                   batch, next_line_id, output_text, align_map,
                   input_line_offset, returned, run, first, procVars>>

\* lines 202-204
Align ==
    /\ pc = "requested"
    /\ LET a == lcs_sequence_alignment(batch, output_text[1])
           offset == next_line_id - Len(splitlines(batch))
       IN  IF a.err
           THEN /\ pc' = "ZeroDivisionError"
                /\ UNCHANGED <<align_map, input_line_offset>>
           ELSE /\ align_map' = a.ret
                /\ input_line_offset' = offset
                /\ pc' = IF lines[offset + 1] = splitlines(batch)[1]
                         THEN "aligned" ELSE "AssertionError"
    /\ UNCHANGED <<cache, lines, record_id, detections, todo_lineid, batch_id,
                   batch, next_line_id, output_text, returned, run, calls,
                   first, oracle_failed, procVars>>

\* lines 205-217.  align_map is the 3-tuple line 111 returned, and a tuple
\* has neither pop() nor keys() nor values(): a batch that ends before the
\* document raises AttributeError at line 207 (len(align_map) is 3), or at
\* line 209; the last batch sets the cursor at line 212 and raises at 214
Advance ==
    /\ pc = "aligned"
    /\ IF next_line_id < Len(lines)
       THEN /\ pc' = IF Len(align_map) > 1
                     THEN "AttributeError"      \* line 207: align_map.pop
                     ELSE "AttributeError"      \* line 209: align_map.values
            /\ UNCHANGED todo_lineid
       ELSE /\ todo_lineid' = Len(lines)        \* line 212
            /\ pc' = "AttributeError"           \* line 214: align_map.values
    /\ UNCHANGED <<cache, lines, record_id, detections, batch_id, batch,
                   next_line_id, output_text, align_map, input_line_offset,
                   returned, run, calls, first, oracle_failed, procVars>>

Next ==
    \/ Detect \/ Rerun \/ LoopExit \/ GenBatch \/ NoiseBreak
    \/ RequestHit \/ RequestMiss \/ RequestFail \/ Align \/ Advance

Spec == Init /\ [][Next]_vars

\* ------------------------------------------- concurrent cached requests
\* NumProcs callers run gpt_linebreak_detection_request on the same cache_dir;
\* each line of the function that reads or writes the directory is one step
Procs == 1..NumProcs
BatchIndexes == {0, 1}
ConcTexts == {<<"a">>, <<"z">>}

\* the call: record_id and batch_index name the file (line 126)
PCall(p) ==
    /\ ppc[p] = "idle"
    /\ \E b \in BatchIndexes : pkey' = [pkey EXCEPT ![p] = Filename(RecordId, b)]
    /\ ppc' = [ppc EXCEPT ![p] = "exists"]
    /\ UNCHANGED <<cache, detectVars, pout, computed>>

\* line 127: filename.exists()
PExists(p) ==
    /\ ppc[p] = "exists"
    /\ ppc' = [ppc EXCEPT ![p] = IF pkey[p] \in DOMAIN cache THEN "read" ELSE "oracle"]
    /\ UNCHANGED <<cache, detectVars, pkey, pout, computed>>

\* line 128: the oracle computes a text, or raises
POracle(p) ==
    /\ ppc[p] = "oracle"
    /\ computed' = [f \in DOMAIN computed \cup {pkey[p]} |->
                      IF f = pkey[p]
                      THEN (IF f \in DOMAIN computed THEN computed[f] ELSE 0) + 1
                      ELSE computed[f]]
    /\ \/ \E resp \in ConcTexts :
             /\ pout' = [pout EXCEPT ![p] = <<resp>>]
             /\ ppc' = [ppc EXCEPT ![p] = "open"]
       \/ /\ ppc' = [ppc EXCEPT ![p] = "raised"]
          /\ UNCHANGED pout
    /\ UNCHANGED <<cache, detectVars, pkey>>

\* line 129: filename.open('w') creates or truncates the file
POpen(p) ==
    /\ ppc[p] = "open"
    /\ cache' = WriteFile(cache, pkey[p], << >>)
    /\ ppc' = [ppc EXCEPT ![p] = "dump"]
    /\ UNCHANGED <<detectVars, pkey, pout, computed>>

\* line 130, then line 134
PDump(p) ==
    /\ ppc[p] = "dump"
    /\ cache' = WriteFile(cache, pkey[p], JsonDump(pout[p][1]))
    /\ ppc' = [ppc EXCEPT ![p] = "returned"]
    /\ UNCHANGED <<detectVars, pkey, pout, computed>>

\* lines 132-134; json.load of a file nothing is dumped in yet raises
PRead(p) ==
    /\ ppc[p] = "read"
    /\ IF cache[pkey[p]] = << >>
       THEN /\ ppc' = [ppc EXCEPT ![p] = "raised"]
            /\ UNCHANGED pout
       ELSE /\ pout' = [pout EXCEPT ![p] = <<JsonLoad(cache[pkey[p]])>>]
            /\ ppc' = [ppc EXCEPT ![p] = "returned"]
    /\ UNCHANGED <<cache, detectVars, pkey, computed>>

NextConc ==
    \E p \in Procs :
        PCall(p) \/ PExists(p) \/ POracle(p) \/ POpen(p) \/ PDump(p) \/ PRead(p)

SpecConc == Init /\ [][NextConc]_vars

\* ------------------------------------------------------------------ claims
\* the run called the oracle and align returned (line 202 is passed)
AlignReturned == pc \in {"aligned", "AssertionError", "AttributeError"}

\* No run starts a second iteration: whenever the loop test of line 195 is
\* evaluated the cursor and the batch counter are still 0.
FirstIterationOnly ==
    pc \in {"loop", "batched", "requested", "aligned"}
        => (todo_lineid = 0 /\ batch_id = 0)

\* C1: a detect run on a non-empty document, the oracle answering every
\* batch, stops only in DONE, returning the decision vector.
C1_StopsOnlyInDone ==
    (Len(lines) > 0 /\ pc \in Ended /\ ~oracle_failed)
        => (pc = "done" /\ returned = <<detections>>)

\* C3: in every state of a run the decision vector has length
\* lineCount - 1.
C3_LengthIsLineCountMinusOne ==
    pc # "idle" => Len(detections) = Len(lines) - 1

\* C5: under every interleaving of concurrent requests the oracle is
\* computed at most once for each (document identity, batch index) key.
C5_ComputedAtMostOnce ==
    \A f \in DOMAIN computed : computed[f] <= 1

\* C6: a second run on the same document and identity, after a first run
\* that populated the cache, makes no oracle call and returns the decision
\* vector the first run returned.
C6_SecondRunReturnsSame ==
    (/\ run = 2 /\ first.files # {}
     /\ pc \in Ended \ {"ZeroDivisionError", "AssertionError"})
        => (calls = 0 /\ returned # << >> /\ returned = first.ret)

\* C7: when the oracle call fails the run ends with that failure: nothing
\* is returned, no text stands in for the response and is aligned, and no
\* file is stored under the batch's key.
C7_OracleFailurePropagates ==
    oracle_failed =>
        /\ pc = "OracleError"
        /\ returned = << >>
        /\ output_text = << >>
        /\ align_map = << >>
        /\ Filename(record_id, batch_id) \notin DOMAIN cache
C7_Witness == oracle_failed /\ pc = "OracleError" /\ calls = 1

\* C8: a run on an empty document returns no decision vector.
C8_EmptyDocumentRejected ==
    (pc # "idle" /\ Len(lines) = 0) => returned = << >>

\* C9: the batch gen_batch returns holds at least one line: its end id is
\* greater than the start id.
C9_BatchHasALine ==
    pc = "batched" => (next_line_id > todo_lineid /\ batch # << >>)

\* C10: after align returns, no output line whose hit rate is strictly
\* below 0.6 is a key of groups, and no output line that shares no word
\* with the input lines is.
SharesNoWord(out_line, input_text) ==
    \A k \in 1..Len(out_line) : \A i \in 1..Len(input_text) : out_line[k] # input_text[i]
C10_LowRateNeverAKey ==
    AlignReturned =>
        \A p \in 1..Len(align_map[3]) :
            (\/ RateDen * align_map[3][p][1] < RateNum * align_map[3][p][2]
             \/ SharesNoWord(splitlines(output_text[1])[p], batch))
                => (p - 1) \notin DOMAIN align_map[1]
\* an output line with matched words and a rate below 0.6 was dropped
C10_Witness ==
    /\ AlignReturned
    /\ \E p \in 1..Len(align_map[3]) :
          /\ align_map[3][p][1] > 0
          /\ RateDen * align_map[3][p][1] < RateNum * align_map[3][p][2]
          /\ (p - 1) \notin DOMAIN align_map[1]

\* C11: align never fails with a division by zero, whatever empty lines
\* the batch or the oracle's text holds.
C11_NoDivisionByZero == pc # "ZeroDivisionError"

\* line 202 was executed: align returned or raised
AlignCalled == AlignReturned \/ pc = "ZeroDivisionError"
\* every output line has hit rate 1 and groups maps every output line id k
\* to {k}
IdentityAlignment ==
    LET n == Len(splitlines(batch))
    IN  /\ Len(align_map[3]) = n
        /\ \A p \in 1..n : /\ align_map[3][p][2] > 0
                           /\ align_map[3][p][1] = align_map[3][p][2]
        /\ DOMAIN align_map[1] = 0..(n - 1)
        /\ \A k \in 0..(n - 1) : align_map[1][k] = {k}

\* C12: when the output lines are the input lines, align
\* returns hit rate 1 for every output line and maps every line to itself.
C12_IdenticalAlignsToItself ==
    (AlignCalled /\ output_text[1] = batch)
        => (AlignReturned /\ IdentityAlignment)

\* C13: the document line at input_line_offset is the batch's first line:
\* the assertion of line 204 never fails.
C13_IntegrityAssertionHolds == pc # "AssertionError"

\* the output line ids that are keys of the groups of line 202
GroupKeys == DOMAIN align_map[1]
\* C14: once the iteration of a non-final batch is over, the group with the
\* highest output line id is no longer in groups.
C14_HighestGroupRemoved ==
    (pc = "AttributeError" /\ next_line_id < Len(lines) /\ GroupKeys # {})
        => (CHOOSE o \in GroupKeys : \A x \in GroupKeys : x <= o)
               \notin GroupKeys

\* C16: when the run has ended after its final batch, decisions[k] is true
\* exactly when the batch positions k - offset and k + 1 - offset are in
\* the input-line set of one group of that batch.
C16_AdjacentInGroupMarked ==
    (pc = "AttributeError" /\ next_line_id = Len(lines))
        => \A k \in 0..(Len(lines) - 2) :
              detections[k + 1]
                  <=> \E o \in GroupKeys :
                         {k - input_line_offset, k + 1 - input_line_offset}
                             \subseteq align_map[1][o]

\* C17: a batch below the noise floor ends the run in one step, without an
\* oracle call, a cache write or a change of a decision, and the run that
\* has ended takes no further step of its own.
C17_NoiseFloorStops ==
    [][/\ (pc = "batched" /\ EncodeLen(batch) < NoiseFloor)
            => /\ pc' = "done"
               /\ calls' = calls
               /\ cache' = cache
               /\ detections' = detections
               /\ returned' = <<detections>>
       /\ pc = "done" => run' = run + 1]_vars
C17_Witness ==
    /\ pc = "done"
    /\ batch # << >>
    /\ EncodeLen(batch) < NoiseFloor
    /\ calls = 0
    /\ returned = <<detections>>

\* the lines at positions a .. b - 1 joined by newline
RECURSIVE JoinLines(_, _, _)
JoinLines(ls, a, b) ==
    IF a >= b THEN << >>
    ELSE IF a = b - 1 THEN ls[a + 1]
    ELSE ls[a + 1] \o <<NL>> \o JoinLines(ls, a + 1, b)
\* C18: the text of a batch is the lines from the cursor up to the batch's
\* end joined by newline, empty lines included.
C18_BatchIsJoinedRange ==
    pc = "batched" => batch = JoinLines(lines, todo_lineid, next_line_id)

\* C19: for two keys o1 < o2 of the groups align returned, every input line
\* id of groups[o1] is at most every input line id of groups[o2].
C19_GroupsFollowLineOrder ==
    AlignReturned
        => \A o1, o2 \in GroupKeys :
              o1 < o2 => \A i1 \in align_map[1][o1] :
                            \A i2 \in align_map[1][o2] : i1 <= i2
C19_Witness ==
    /\ AlignReturned
    /\ \E o1, o2 \in GroupKeys :
          /\ o1 < o2
          /\ \E i1 \in align_map[1][o1] : \E i2 \in align_map[1][o2] : i1 < i2
====
